---- MODULE Spec2Model ----
(***************************************************************************)
(* Model of squish/src/colourblock.rs: the BC1/BC2/BC3 colour block codec. *)
(* pack_565, write_block, write3, write4, unpack_565 and decompress are    *)
(* pure functions over fixed-size buffers; they are modelled as operators  *)
(* computed the way the code computes them (u8/u16 widths, shifts, masks,  *)
(* little-endian byte order), and one action per entry point applies them  *)
(* to inputs drawn from bounded sets.                                      *)
(***************************************************************************)
EXTENDS Integers, Sequences, FiniteSets, TLC

VARIABLES
    pc,        \* the call that ran last ("idle" before any call)
    enc,       \* what produced `block`: write3, write4, write_block or raw
    start,     \* the `start` argument of write3 / write4
    end,       \* the `end` argument of write3 / write4
    ab,        \* the <<a, b>> arguments of write_block
    indices,   \* the `indices` argument of the encoder
    block,     \* the block buffer (a sequence of bytes)
    is_bc1,    \* the `is_bc1` argument of decompress
    channels,  \* number_of_channels() of the sink given to decompress
    output,    \* the sink: output[y * 4 + x][channel]
    written,   \* the (x, y, channel) triples passed to set_value
    packed,    \* the 2-byte argument of unpack_565
    unpacked,  \* the result of unpack_565
    field      \* the 565 field ("r", "g", "b") the unpack_565 sweep steps

vars == <<pc, enc, start, end, ab, indices, block, is_bc1, channels, output,
          written, packed, unpacked, field>>

(***************************************************************************)
(* Bounds of the model.                                                    *)
(***************************************************************************)
\* the endpoints are the first NumColours entries of ColourTable
NumColours == 11
\* the periodic index arrays idx[i] = pat[i % PatLen]
PatLen == 2

(***************************************************************************)
(* Fixed-width integer helpers (Rust u8 / u16 semantics).                  *)
(***************************************************************************)
RECURSIVE Pow2(_)
Pow2(k) == IF k = 0 THEN 1 ELSE 2 * Pow2(k - 1)

RECURSIVE BitOr(_, _)
BitOr(x, y) ==
    IF x = 0 THEN y
    ELSE IF y = 0 THEN x
    ELSE (IF x % 2 = 1 \/ y % 2 = 1 THEN 1 ELSE 0) + 2 * BitOr(x \div 2, y \div 2)

RECURSIVE BitAnd(_, _)
BitAnd(x, y) ==
    IF x = 0 \/ y = 0 THEN 0
    ELSE (IF x % 2 = 1 /\ y % 2 = 1 THEN 1 ELSE 0) + 2 * BitAnd(x \div 2, y \div 2)

RECURSIVE BitXor(_, _)
BitXor(x, y) ==
    IF x = 0 THEN y
    ELSE IF y = 0 THEN x
    ELSE (IF x % 2 # y % 2 THEN 1 ELSE 0) + 2 * BitXor(x \div 2, y \div 2)

\* x << k on a u8 / u16: the bits shifted out of the width are dropped
ShlU8(x, k) == (x * Pow2(k)) % 256
ShlU16(x, k) == (x * Pow2(k)) % 65536
Shr(x, k) == x \div Pow2(k)

\* u16::to_le_bytes / u16::from_le_bytes
to_le_bytes(v) == <<v % 256, v \div 256>>
from_le_bytes(tmp) == tmp[1] + 256 * tmp[2]

(***************************************************************************)
(* Colours.  A Vec3 is <<x, y, z>>; a float channel is the rational        *)
(* <<n, d>> = n / d with d > 0.                                            *)
(***************************************************************************)
\* f32 multiplication by an integer constant: k * (n / d)
MulF(k, c) == <<k * c[1], c[2]>>

\* math::f32_to_i32_clamped: round to nearest (ties away from zero), then
\* saturate to 0..limit
f32_to_i32_clamped(a, limit) ==
    LET n == a[1]
        d == a[2]
        rounded == IF n >= 0 THEN (2 * n + d) \div (2 * d)
                             ELSE 0 - ((2 * (0 - n) + d) \div (2 * d))
    IN  IF rounded < 0 THEN 0 ELSE IF rounded > limit THEN limit ELSE rounded

pack_565(colour) ==
    LET r == f32_to_i32_clamped(MulF(31, colour[1]), 31)
        g == f32_to_i32_clamped(MulF(63, colour[2]), 63)
        b == f32_to_i32_clamped(MulF(31, colour[3]), 31)
    IN  BitOr(BitOr(ShlU16(r, 11), ShlU16(g, 5)), b)

(***************************************************************************)
(* Encoder.  A block is a sequence of bytes; Byte(bytes, i) is bytes[i]    *)
(* of the code (0-based).  An index array is a function on 0..15.          *)
(***************************************************************************)
Byte(bytes, i) == bytes[i + 1]

\* write_block with the endpoints stored big-endian
write_block_big_endian(a, b, idx, blk) ==
    LET pk == [i \in 0..3 |->
                 BitOr(BitOr(BitOr(ShlU8(BitAnd(idx[4 * i + 3], 3), 6),
                                   ShlU8(BitAnd(idx[4 * i + 2], 3), 4)),
                             ShlU8(BitAnd(idx[4 * i + 1], 3), 2)),
                       BitAnd(idx[4 * i], 3))]
    IN  <<a \div 256, a % 256, b \div 256, b % 256, pk[0], pk[1], pk[2], pk[3]>>

write_block(a, b, idx, blk) ==
    LET la == to_le_bytes(a)
        lb == to_le_bytes(b)
        pk == [i \in 0..3 |->
                 BitOr(BitOr(BitOr(ShlU8(BitAnd(idx[4 * i + 3], 3), 6),
                                   ShlU8(BitAnd(idx[4 * i + 2], 3), 4)),
                             ShlU8(BitAnd(idx[4 * i + 1], 3), 2)),
                       BitAnd(idx[4 * i], 3))]
    IN  <<la[1], la[2], lb[1], lb[2], pk[0], pk[1], pk[2], pk[3]>>

\* write3 that never swaps the endpoints
write3_no_swap(s, e, idx, blk) ==
    write_block(pack_565(s), pack_565(e), idx, blk)

\* write3 that swaps the endpoints but leaves the indices alone
write3_no_remap(s, e, idx, blk) ==
    LET a == pack_565(s)
        b == pack_565(e)
    IN  IF a > b THEN write_block(b, a, idx, blk) ELSE write_block(a, b, idx, blk)

write3(s, e, idx, blk) ==
    LET a == pack_565(s)
        b == pack_565(e)
    IN  IF a > b
        THEN write_block(b, a,
                 [i \in 0..15 |-> IF idx[i] = 0 THEN 1
                                  ELSE IF idx[i] = 1 THEN 0 ELSE idx[i]], blk)
        ELSE write_block(a, b, idx, blk)

\* write4 with the comparison of the swap inverted
write4_swap_inverted(s, e, idx, blk) ==
    LET a == pack_565(s)
        b == pack_565(e)
    IN  IF a > b
        THEN write_block(b, a,
                 [i \in 0..15 |-> BitAnd(BitXor(idx[i], 1), 3)], blk)
        ELSE IF a < b
        THEN write_block(a, b, idx, blk)
        ELSE write_block(a, b, [i \in 0..15 |-> 0], blk)

\* write4 that swaps the endpoints but leaves the indices alone
write4_no_remap(s, e, idx, blk) ==
    LET a == pack_565(s)
        b == pack_565(e)
    IN  IF a < b
        THEN write_block(b, a, idx, blk)
        ELSE IF a > b
        THEN write_block(a, b, idx, blk)
        ELSE write_block(a, b, [i \in 0..15 |-> 0], blk)

\* write4 that keeps the caller's indices when the endpoints are equal
write4_keep_indices(s, e, idx, blk) ==
    LET a == pack_565(s)
        b == pack_565(e)
    IN  IF a < b
        THEN write_block(b, a,
                 [i \in 0..15 |-> BitAnd(BitXor(idx[i], 1), 3)], blk)
        ELSE write_block(a, b, idx, blk)

write4(s, e, idx, blk) ==
    LET a == pack_565(s)
        b == pack_565(e)
    IN  IF a < b
        THEN write_block(b, a,
                 [i \in 0..15 |-> BitAnd(BitXor(idx[i], 1), 3)], blk)
        ELSE IF a > b
        THEN write_block(a, b, idx, blk)
        ELSE write_block(a, b, [i \in 0..15 |-> 0], blk)

(***************************************************************************)
(* Decoder.                                                                *)
(***************************************************************************)
\* unpack_565 that scales green with the shifts of red and blue
unpack_565_green_as_red(pk) ==
    LET value == from_le_bytes(pk)
        r == BitAnd(Shr(value, 11), 31)
        g == BitAnd(Shr(value, 5), 63)
        b == BitAnd(value, 31)
    IN  <<BitOr(ShlU8(r, 3), Shr(r, 2)),
          BitOr(ShlU8(g, 3), Shr(g, 2)),
          BitOr(ShlU8(b, 3), Shr(b, 2)),
          255>>

\* unpack_565 of a 2-byte slice: <<r, g, b, 255>>
unpack_565(pk) ==
    LET value == from_le_bytes(pk)
        r == BitAnd(Shr(value, 11), 31)
        g == BitAnd(Shr(value, 5), 63)
        b == BitAnd(value, 31)
    IN  <<BitOr(ShlU8(r, 3), Shr(r, 2)),
          BitOr(ShlU8(g, 2), Shr(g, 4)),
          BitOr(ShlU8(b, 3), Shr(b, 2)),
          255>>

\* decompress that enters the 3-colour mode only when a < b
Codes_strict_compare(bytes, bc1) ==
    LET a == from_le_bytes(<<Byte(bytes, 0), Byte(bytes, 1)>>)
        b == from_le_bytes(<<Byte(bytes, 2), Byte(bytes, 3)>>)
        c0 == unpack_565(<<Byte(bytes, 0), Byte(bytes, 1)>>)
        c1 == unpack_565(<<Byte(bytes, 2), Byte(bytes, 3)>>)
        alphaMode == bc1 /\ a < b
    IN  [k \in 0..15 |->
            LET i == k % 4
                c == c0[i + 1]
                d == c1[i + 1]
            IN  IF k < 4 THEN c
                ELSE IF k < 8 THEN d
                ELSE IF k = 11 THEN 255
                ELSE IF k = 15 THEN (IF alphaMode THEN 0 ELSE 255)
                ELSE IF k < 12
                     THEN (IF alphaMode THEN ((c + d) \div 2) % 256
                                        ELSE ((2 * c + d) \div 3) % 256)
                     ELSE (IF alphaMode THEN 0
                                        ELSE ((c + 2 * d) \div 3) % 256)]

\* decompress with the two interpolated slots exchanged
Codes_slots_exchanged(bytes, bc1) ==
    LET a == from_le_bytes(<<Byte(bytes, 0), Byte(bytes, 1)>>)
        b == from_le_bytes(<<Byte(bytes, 2), Byte(bytes, 3)>>)
        c0 == unpack_565(<<Byte(bytes, 0), Byte(bytes, 1)>>)
        c1 == unpack_565(<<Byte(bytes, 2), Byte(bytes, 3)>>)
        alphaMode == bc1 /\ a <= b
    IN  [k \in 0..15 |->
            LET i == k % 4
                c == c0[i + 1]
                d == c1[i + 1]
            IN  IF k < 4 THEN c
                ELSE IF k < 8 THEN d
                ELSE IF k = 11 THEN 255
                ELSE IF k = 15 THEN (IF alphaMode THEN 0 ELSE 255)
                ELSE IF k < 12
                     THEN (IF alphaMode THEN ((c + d) \div 2) % 256
                                        ELSE ((c + 2 * d) \div 3) % 256)
                     ELSE (IF alphaMode THEN 0
                                        ELSE ((2 * c + d) \div 3) % 256)]

\* the palette `codes` of decompress: codes[4 * slot + channel]
Codes(bytes, bc1) ==
    LET a == from_le_bytes(<<Byte(bytes, 0), Byte(bytes, 1)>>)
        b == from_le_bytes(<<Byte(bytes, 2), Byte(bytes, 3)>>)
        c0 == unpack_565(<<Byte(bytes, 0), Byte(bytes, 1)>>)
        c1 == unpack_565(<<Byte(bytes, 2), Byte(bytes, 3)>>)
        alphaMode == bc1 /\ a <= b
    IN  [k \in 0..15 |->
            LET i == k % 4
                c == c0[i + 1]
                d == c1[i + 1]
            IN  IF k < 4 THEN c
                ELSE IF k < 8 THEN d
                ELSE IF k = 11 THEN 255
                ELSE IF k = 15 THEN (IF alphaMode THEN 0 ELSE 255)
                ELSE IF k < 12
                     THEN (IF alphaMode THEN ((c + d) \div 2) % 256
                                        ELSE ((2 * c + d) \div 3) % 256)
                     ELSE (IF alphaMode THEN 0
                                        ELSE ((c + 2 * d) \div 3) % 256)]

\* the 16 two-bit LUT indices of bytes 4..7
UnpackIndices(bytes) ==
    [p \in 0..15 |-> BitAnd(Shr(Byte(bytes, 4 + (p \div 4)), 2 * (p % 4)), 3)]

\* rgba[i] = codes[4 * indices[i] .. 4 * indices[i] + 4]
Rgba(bytes, bc1) ==
    LET codes == Codes(bytes, bc1)
        ind == UnpackIndices(bytes)
    IN  [p \in 0..15 |-> [ch \in 0..3 |-> codes[4 * ind[p] + ch]]]

\* decompress that accepts a sink of 3 channels
DecompressPanics_three_channels(bytes, nch) == ~(Len(bytes) = 8) \/ ~(nch >= 3)

\* the two assertions at the head of decompress
DecompressPanics(bytes, nch) == ~(Len(bytes) = 8) \/ ~(nch >= 4)

\* the sink after the set_value loop: channels 0..3 of every pixel are set
DecompressOutput(bytes, bc1, out) ==
    LET rgba == Rgba(bytes, bc1)
    IN  [p \in 0..15 |->
           [ch \in DOMAIN out[p] |-> IF ch < 4 THEN rgba[p][ch] ELSE out[p][ch]]]

\* the (x, y, channel) triples decompress passes to set_value
DecompressWrites == {<<x, y, ch>> : x \in 0..3, y \in 0..3, ch \in 0..3}

(***************************************************************************)
(* Inputs.                                                                 *)
(***************************************************************************)
\* the corners of the unit cube, mid grey, a second colour that quantises to
\* the same 565 word as mid grey, a colour with channels outside 0..1, and
\* two more in-range colours
ColourTable ==
    << <<<<0, 1>>, <<0, 1>>, <<0, 1>>>>,
       <<<<1, 1>>, <<1, 1>>, <<1, 1>>>>,
       <<<<1, 1>>, <<0, 1>>, <<0, 1>>>>,
       <<<<0, 1>>, <<1, 1>>, <<0, 1>>>>,
       <<<<0, 1>>, <<0, 1>>, <<1, 1>>>>,
       <<<<1, 2>>, <<1, 2>>, <<1, 2>>>>,
       <<<<16, 31>>, <<32, 63>>, <<16, 31>>>>,
       <<<<0 - 1, 4>>, <<5, 4>>, <<1, 3>>>>,
       <<<<1, 1>>, <<1, 1>>, <<0, 1>>>>,
       <<<<0, 1>>, <<1, 1>>, <<1, 1>>>>,
       <<<<1, 1>>, <<0, 1>>, <<1, 1>>>>,
       <<<<1, 3>>, <<2, 3>>, <<1, 5>>>>,
       <<<<9, 10>>, <<1, 10>>, <<1, 2>>>> >>

Colours == {ColourTable[k] : k \in 1..NumColours}

\* index arrays whose four rows differ: one with all of 0..3 in every row,
\* one irregular, one that uses 0..2 only
ProbeArrays ==
    {[i \in 0..15 |-> t[i + 1]] :
        t \in { <<0, 1, 2, 3, 1, 2, 3, 0, 2, 3, 0, 1, 3, 0, 1, 2>>,
                <<3, 3, 2, 2, 1, 1, 0, 0, 0, 2, 1, 3, 2, 0, 3, 1>>,
                <<0, 1, 2, 0, 2, 2, 1, 0, 1, 0, 0, 2, 2, 1, 0, 1>> }}

IndexArrays ==
    {[i \in 0..15 |-> pat[i % PatLen]] : pat \in [0..(PatLen - 1) -> 0..3]}
        \cup ProbeArrays

\* raw 16-bit endpoint words: 0x0000, 0x00FF, 0x0100, 0x07E0, 0x7BEF,
\* 0x8410, 0xFFFF
RawEndpoints == {0, 255, 256, 2016, 31727, 33808, 65535}

\* index bytes 0xE4, 0x1B, 0x4E, 0xB1: every pixel of a row sees every index
IndexBytes == {228, 27, 78, 177}

\* bytes 4..7: two free rows, the other two rows derived from them
RawBlocks ==
    {to_le_bytes(a) \o to_le_bytes(b) \o <<r0, r1, 255 - r0, r1>> :
        a \in RawEndpoints, b \in RawEndpoints,
        r0 \in IndexBytes, r1 \in IndexBytes}

\* slices that are not 8 bytes long
BadBlocks ==
    { <<>>, <<255, 255, 0, 0, 228, 27, 78>>,
      <<0, 0, 255, 255, 228, 27, 78, 177, 0>> }

SinkChannels == {3, 4, 5}

ZeroColour == <<<<0, 1>>, <<0, 1>>, <<0, 1>>>>
ZeroIndices == [i \in 0..15 |-> 0]
EmptySink(nch) == [p \in 0..15 |-> [ch \in 0..(nch - 1) |-> 0]]

(***************************************************************************)
(* The state machine.                                                      *)
(***************************************************************************)
Init ==
    /\ pc = "idle"
    /\ enc = "none"
    /\ start = ZeroColour
    /\ end = ZeroColour
    /\ ab = <<0, 0>>
    /\ indices = ZeroIndices
    /\ block = <<0, 0, 0, 0, 0, 0, 0, 0>>
    /\ is_bc1 = FALSE
    /\ channels = 4
    /\ output = EmptySink(4)
    /\ written = {}
    /\ packed = <<0, 0>>
    /\ unpacked = <<0, 0, 0, 0>>
    /\ field = "none"

Write3 ==
    /\ pc = "idle"
    /\ \E s \in Colours, e \in Colours, idx \in IndexArrays :
          /\ start' = s
          /\ end' = e
          /\ indices' = idx
          /\ block' = write3(s, e, idx, block)
    /\ pc' = "write3"
    /\ enc' = "write3"
    /\ UNCHANGED <<ab, is_bc1, channels, output, written, packed, unpacked, field>>

Write4 ==
    /\ pc = "idle"
    /\ \E s \in Colours, e \in Colours, idx \in IndexArrays :
          /\ start' = s
          /\ end' = e
          /\ indices' = idx
          /\ block' = write4(s, e, idx, block)
    /\ pc' = "write4"
    /\ enc' = "write4"
    /\ UNCHANGED <<ab, is_bc1, channels, output, written, packed, unpacked, field>>

WriteBlock ==
    /\ pc = "idle"
    /\ \E a \in RawEndpoints, b \in RawEndpoints, idx \in IndexArrays :
          /\ ab' = <<a, b>>
          /\ indices' = idx
          /\ block' = write_block(a, b, idx, block)
    /\ pc' = "write_block"
    /\ enc' = "write_block"
    /\ UNCHANGED <<start, end, is_bc1, channels, output, written, packed, unpacked,
                   field>>

\* the caller hands decompress a block that did not come from this encoder
LoadBlock ==
    /\ pc = "idle"
    /\ \E bytes \in RawBlocks \cup BadBlocks : block' = bytes
    /\ pc' = "loaded"
    /\ enc' = "raw"
    /\ UNCHANGED <<start, end, ab, indices, is_bc1, channels, output, written,
                   packed, unpacked, field>>

Decompress ==
    /\ pc \in {"write3", "write4", "write_block", "loaded"}
    /\ \E bc1 \in BOOLEAN, nch \in SinkChannels :
          /\ is_bc1' = bc1
          /\ channels' = nch
          /\ IF DecompressPanics(block, nch)
             THEN /\ pc' = "panic"
                  /\ output' = EmptySink(nch)
                  /\ written' = {}
             ELSE /\ pc' = "decompress"
                  /\ output' = DecompressOutput(block, bc1, EmptySink(nch))
                  /\ written' = DecompressWrites
    /\ UNCHANGED <<enc, start, end, ab, indices, block, packed, unpacked, field>>

\* 565 fields of a packed word, and the word of three fields
FieldR(v) == (v \div 2048) % 32
FieldG(v) == (v \div 32) % 64
FieldB(v) == v % 32
Word565(r, g, b) == 2048 * r + 32 * g + b

\* a word with field f replaced by k
WithField(v, f, k) ==
    Word565(IF f = "r" THEN k ELSE FieldR(v),
            IF f = "g" THEN k ELSE FieldG(v),
            IF f = "b" THEN k ELSE FieldB(v))
FieldOf(v, f) == IF f = "r" THEN FieldR(v) ELSE IF f = "g" THEN FieldG(v) ELSE FieldB(v)
FieldMax(f) == IF f = "g" THEN 63 ELSE 31

\* unpack_565 of a word at the start of a single-channel sweep
Unpack565 ==
    /\ pc = "idle"
    /\ \E v \in RawEndpoints, f \in {"r", "g", "b"} :
          /\ field' = f
          /\ packed' = to_le_bytes(WithField(v, f, 0))
          /\ unpacked' = unpack_565(to_le_bytes(WithField(v, f, 0)))
    /\ pc' = "unpack_565"
    /\ UNCHANGED <<enc, start, end, ab, indices, block, is_bc1, channels, output,
                   written>>

\* the next step of the sweep: unpack_565 of the word whose swept field is
\* one higher, the other two fields fixed
Unpack565Sweep ==
    /\ pc = "unpack_565"
    /\ LET v == from_le_bytes(packed)
           w == WithField(v, field, FieldOf(v, field) + 1)
       IN  /\ FieldOf(v, field) < FieldMax(field)
           /\ packed' = to_le_bytes(w)
           /\ unpacked' = unpack_565(to_le_bytes(w))
    /\ UNCHANGED <<pc, enc, start, end, ab, indices, block, is_bc1, channels,
                   output, written, field>>

Next ==
    \/ Write3
    \/ Write4
    \/ WriteBlock
    \/ LoadBlock
    \/ Decompress
    \/ Unpack565
    \/ Unpack565Sweep

Spec == Init /\ [][Next]_vars

(***************************************************************************)
(* Properties.                                                             *)
(***************************************************************************)
\* the endpoint words stored in bytes 0-1 and 2-3 of the block
StoredA == Byte(block, 0) + 256 * Byte(block, 1)
StoredB == Byte(block, 2) + 256 * Byte(block, 3)
\* the packed words of the caller's endpoints and their 8-bit colours
PackedStart == pack_565(start)
PackedEnd == pack_565(end)
UnpackedStart == unpack_565(to_le_bytes(PackedStart))
UnpackedEnd == unpack_565(to_le_bytes(PackedEnd))
\* the RGBA pixel the sink holds at row-major position p
Pixel(p) == <<output[p][0], output[p][1], output[p][2], output[p][3]>>
\* per-channel truncated blends of two RGBA colours, alpha 255
Blend2(c, d) ==
    <<(c[1] + d[1]) \div 2, (c[2] + d[2]) \div 2, (c[3] + d[3]) \div 2, 255>>
Blend3(c, d) ==
    <<(2 * c[1] + d[1]) \div 3, (2 * c[2] + d[2]) \div 3,
      (2 * c[3] + d[3]) \div 3, 255>>
\* the 2-bit index stored in bits 2x..2x+1 of byte 4+y
StoredIndex(x, y) == (Byte(block, 4 + y) \div Pow2(2 * x)) % 4

\* C1: after write3 the stored endpoints satisfy A <= B and are the two
\* packed endpoints of the caller, in some order.
C1_Write3Ordered ==
    enc = "write3" =>
        LET A == StoredA
            B == StoredB
        IN  /\ A <= B
            /\ {A, B} = {PackedStart, PackedEnd}

C1_Witness ==
    /\ pc = "write3"
    /\ PackedStart > PackedEnd
    /\ StoredA < StoredB

\* C2: after write4 the stored endpoints satisfy A > B whenever the packed
\* endpoints differ, A = B only when they are equal, and never A < B.
C2_Write4Ordered ==
    enc = "write4" =>
        LET A == StoredA
            B == StoredB
            samePacked == PackedStart = PackedEnd
        IN  /\ (~samePacked => A > B)
            /\ (A = B => samePacked)
            /\ ~(A < B)

C2_Witness ==
    /\ pc = "write4"
    /\ PackedStart < PackedEnd
    /\ StoredA > StoredB

\* C3: the block of write4(start, end, idx) and the block of
\* write4(end, start, idx') with idx'[i] = (idx[i] XOR 1) & 3 decompress to
\* the same 16 pixels, for either is_bc1, also when the packed endpoints
\* are equal.
C3_SwapConsistent ==
    (pc = "decompress" /\ enc = "write4") =>
        LET flipped == [i \in 0..15 |-> (indices[i] + 1 - 2 * (indices[i] % 2)) % 4]
            other == Rgba(write4(end, start, flipped, block), is_bc1)
        IN  \A p \in 0..15 : \A ch \in 0..3 : output[p][ch] = other[p][ch]

C3_Witness ==
    /\ pc = "decompress"
    /\ enc = "write4"
    /\ PackedStart < PackedEnd
    /\ is_bc1
    /\ \E p \in 0..15 : indices[p] = 2
    /\ \E p \in 0..15 : indices[p] = 1

\* C4: write4 then decompress gives pixel p the colour P[idx[p]] of the
\* palette of the caller's unswapped endpoints: P[0] = S, P[1] = E,
\* P[2] = (2S+E)/3, P[3] = (S+2E)/3, alpha 255, for either is_bc1.
C4_Write4RoundTrip ==
    (pc = "decompress" /\ enc = "write4") =>
        LET S == UnpackedStart
            E == UnpackedEnd
            P == <<S, E, Blend3(S, E), Blend3(E, S)>>
        IN  \A p \in 0..15 : Pixel(p) = P[indices[p] + 1]

C4_Witness ==
    /\ pc = "decompress"
    /\ enc = "write4"
    /\ ~is_bc1
    /\ PackedStart = 65535
    /\ PackedEnd = 0
    /\ \E p \in 0..15 : indices[p] = 2 /\ Pixel(p) = <<170, 170, 170, 255>>

\* a second witness of C4: the endpoints were swapped by write4
C4_WitnessSwapped ==
    /\ pc = "decompress"
    /\ enc = "write4"
    /\ PackedStart < PackedEnd
    /\ \E p \in 0..15 : indices[p] = 3

\* C5: write3 then decompress with is_bc1 gives pixel p the colour S for
\* index 0, E for index 1 and the truncated average (S+E)/2 with alpha 255
\* for index 2, whether or not write3 swapped the endpoints.
C5_Write3RoundTrip ==
    (pc = "decompress" /\ enc = "write3" /\ is_bc1
        /\ \A p \in 0..15 : indices[p] \in {0, 1, 2}) =>
        LET S == UnpackedStart
            E == UnpackedEnd
            P == <<S, E, Blend2(S, E)>>
        IN  \A p \in 0..15 : Pixel(p) = P[indices[p] + 1]

C5_Witness ==
    /\ pc = "decompress"
    /\ enc = "write3"
    /\ is_bc1
    /\ PackedStart > PackedEnd
    /\ \A p \in 0..15 : indices[p] \in {0, 1, 2}
    /\ \E p \in 0..15 : indices[p] = 0 /\ Pixel(p) = <<255, 0, 0, 255>>
    /\ \E p \in 0..15 : indices[p] = 2

\* C6: when the packed endpoints are equal, write4 stores bytes 4-7 as zero
\* and decompress yields 16 pixels equal to unpack565(pack565(start)) with
\* alpha 255, for is_bc1 false and true, whatever the index array.
C6_Degenerate ==
    (enc = "write4" /\ PackedStart = PackedEnd) =>
        /\ \A i \in 4..7 : Byte(block, i) = 0
        /\ pc = "decompress" =>
              LET S == UnpackedStart
              IN  \A p \in 0..15 : Pixel(p) = S /\ Pixel(p)[4] = 255

C6_Witness ==
    /\ pc = "decompress"
    /\ enc = "write4"
    /\ PackedStart = PackedEnd
    /\ start # end
    /\ is_bc1
    /\ \E p \in 0..15 : indices[p] = 3

\* C7: write_block stores a and b little-endian in bytes 0-3 and index 4i+k
\* in bits 2k..2k+1 of byte 4+i; decompress colours pixel (x, y) by the
\* index stored in bits 2x..2x+1 of byte 4+y.
C7_WireLayout ==
    /\ enc = "write_block" =>
          /\ Byte(block, 0) = ab[1] % 256
          /\ Byte(block, 1) = ab[1] \div 256
          /\ Byte(block, 2) = ab[2] % 256
          /\ Byte(block, 3) = ab[2] \div 256
          /\ \A i \in 0..3 :
                Byte(block, 4 + i) = indices[4 * i] + 4 * indices[4 * i + 1]
                                     + 16 * indices[4 * i + 2]
                                     + 64 * indices[4 * i + 3]
    /\ pc = "decompress" =>
          LET codes == Codes(block, is_bc1)
          IN  \A x \in 0..3 : \A y \in 0..3 : \A ch \in 0..3 :
                 output[y * 4 + x][ch] = codes[4 * StoredIndex(x, y) + ch]

C7_Witness ==
    /\ pc = "decompress"
    /\ enc = "write_block"
    /\ ab = <<255, 256>>
    /\ indices \in ProbeArrays
    /\ indices[0] # indices[1]
    /\ indices[0] # indices[4]
    /\ Byte(block, 4) # Byte(block, 5)

\* C8: decompress fails exactly when the block is not 8 bytes long or the
\* sink has fewer than 4 channels, and then it has made no set_value call;
\* otherwise it writes the 4 channels of all 16 pixels.
C8_ShapeChecks ==
    pc \in {"panic", "decompress"} =>
        IF Len(block) # 8 \/ channels < 4
        THEN pc = "panic" /\ written = {}
        ELSE /\ pc = "decompress"
             /\ \A x \in 0..3 : \A y \in 0..3 : \A ch \in 0..3 :
                   <<x, y, ch>> \in written

C8_Witness ==
    /\ pc = "panic"
    /\ Len(block) = 8
    /\ channels = 3

\* a second witness of C8: an arbitrary 8-byte block is decoded
C8_WitnessDecoded ==
    /\ pc = "decompress"
    /\ enc = "raw"
    /\ channels = 5
    /\ Cardinality(written) = 64

\* C9: index 0 decodes to c = unpack565(A), index 1 to d = unpack565(B);
\* if is_bc1 and A <= B as raw 16-bit words, index 2 decodes to (c+d)/2
\* with alpha 255 and index 3 to (0,0,0,0); otherwise index 2 decodes to
\* (2c+d)/3 and index 3 to (c+2d)/3 with alpha 255.  A pixel has alpha 0
\* exactly when is_bc1, A <= B and its index is 3; otherwise alpha 255.
C9_DecoderPalette ==
    pc = "decompress" =>
        LET c == unpack_565(<<Byte(block, 0), Byte(block, 1)>>)
            d == unpack_565(<<Byte(block, 2), Byte(block, 3)>>)
            alphaMode == is_bc1 /\ StoredA <= StoredB
            P == IF alphaMode
                 THEN <<c, d, Blend2(c, d), <<0, 0, 0, 0>>>>
                 ELSE <<c, d, Blend3(c, d), Blend3(d, c)>>
        IN  \A x \in 0..3 : \A y \in 0..3 :
               LET px == Pixel(y * 4 + x)
                   k == StoredIndex(x, y)
               IN  /\ px = P[k + 1]
                   /\ (px[4] = 0) <=> (alphaMode /\ k = 3)
                   /\ px[4] \in {0, 255}

\* raw A = 0x00FF <= B = 0x0100, although byte 0 of A exceeds byte 2 of B
C9_Witness ==
    /\ pc = "decompress"
    /\ enc = "raw"
    /\ is_bc1
    /\ StoredA = 255
    /\ StoredB = 256
    /\ \E p \in 0..15 : Pixel(p) = <<0, 0, 0, 0>>
    /\ \E p \in 0..15 : Pixel(p)[4] = 255

\* the state part of the unpack_565 channel property
UnpackChannelOk ==
    pc = "unpack_565" =>
        LET v == from_le_bytes(packed)
            r == FieldR(v)
            g == FieldG(v)
            b == FieldB(v)
        IN  /\ unpacked[4] = 255
            /\ \A i \in 1..4 : unpacked[i] \in 0..255
            /\ unpacked[1] = 8 * r + r \div 4
            /\ unpacked[2] = 4 * g + g \div 16
            /\ unpacked[3] = 8 * b + b \div 4
            /\ (r = 0 => unpacked[1] = 0) /\ (r = 31 => unpacked[1] = 255)
            /\ (g = 0 => unpacked[2] = 0) /\ (g = 63 => unpacked[2] = 255)
            /\ (b = 0 => unpacked[3] = 0) /\ (b = 31 => unpacked[3] = 255)

\* C10: each channel of unpack565 is non-decreasing in its field, maps
\* field 0 to 0 and the maximum field to 255, is the bit replication
\* without 8-bit overflow, and alpha is always 255.
C10_Monotone ==
    [][ pc' = "unpack_565" =>
          /\ UnpackChannelOk'
          /\ pc = "unpack_565" =>
                LET v == from_le_bytes(packed)
                    w == from_le_bytes(packed')
                IN  /\ (FieldR(v) <= FieldR(w) => unpacked[1] <= unpacked'[1])
                    /\ (FieldG(v) <= FieldG(w) => unpacked[2] <= unpacked'[2])
                    /\ (FieldB(v) <= FieldB(w) => unpacked[3] <= unpacked'[3]) ]_vars

C10_Witness ==
    /\ pc = "unpack_565"
    /\ field = "g"
    /\ FieldG(from_le_bytes(packed)) = 63
    /\ FieldR(from_le_bytes(packed)) = 16
    /\ unpacked[2] = 255

====
